---- MODULE Spec2Model ----
(***************************************************************************)
(* Model of the retirement projection of lumpsumsim (src/main.py) and of   *)
(* its Streamlit front end (src/app.py).                                   *)
(*                                                                         *)
(* Python floats are modelled as exact decimal numbers of unbounded        *)
(* precision: a number is a record [neg, mag, exp] whose magnitude `mag`   *)
(* is a little-endian sequence of base-10^4 limbs and whose value is       *)
(*     (-1)^neg * (SUM_i mag[i] * Base^(i-1)) / Base^exp.                  *)
(* Every number is kept normalised (no high zero limb, no low zero limb    *)
(* while exp > 0, zero is never negative), so two numbers are equal        *)
(* exactly when their records are equal.  All decimal literals of the      *)
(* source (0.186, 954.8, 10636.31, ...) and all inputs entered with two    *)
(* decimals are exact in this representation, and +, -, * and the          *)
(* divisions by the literal constants 5, 10 and 10000.0 are computed       *)
(* without rounding; only round(x, 2) rounds.                              *)
(***************************************************************************)
EXTENDS Integers, Sequences, FiniteSets, TLC

Base == 10^4

\* ------------------------------------------------------------------------
\* Magnitudes: little-endian sequences of limbs in 0..Base-1
\* ------------------------------------------------------------------------
Hd(a) ==
    IF a = <<>> THEN 0 ELSE Head(a)

Tl(a) ==
    IF a = <<>> THEN <<>> ELSE Tail(a)

RECURSIVE MagStrip(_)
MagStrip(a) ==
    IF a = <<>> THEN <<>>
    ELSE IF a[Len(a)] = 0 THEN MagStrip(SubSeq(a, 1, Len(a) - 1))
    ELSE a

RECURSIVE MagAdd(_, _, _)
MagAdd(a, b, c) ==
    IF a = <<>> /\ b = <<>>
    THEN (IF c = 0 THEN <<>> ELSE <<c>>)
    ELSE LET s == Hd(a) + Hd(b) + c
         IN  <<s % Base>> \o MagAdd(Tl(a), Tl(b), s \div Base)

\* a - b - c for a >= b + c
RECURSIVE MagSub(_, _, _)
MagSub(a, b, c) ==
    IF a = <<>> THEN <<>>
    ELSE LET s == Hd(a) - Hd(b) - c
         IN  IF s < 0
             THEN <<s + Base>> \o MagSub(Tl(a), Tl(b), 1)
             ELSE <<s>> \o MagSub(Tl(a), Tl(b), 0)

\* -1, 0, 1 as a < b, a = b, a > b; both without high zero limbs
RECURSIVE MagCmp(_, _)
MagCmp(a, b) ==
    IF Len(a) # Len(b) THEN (IF Len(a) < Len(b) THEN -1 ELSE 1)
    ELSE IF a = <<>> THEN 0
    ELSE IF a[Len(a)] # b[Len(b)] THEN (IF a[Len(a)] < b[Len(b)] THEN -1 ELSE 1)
    ELSE MagCmp(SubSeq(a, 1, Len(a) - 1), SubSeq(b, 1, Len(b) - 1))

RECURSIVE MagMulLimb(_, _, _)
MagMulLimb(a, m, c) ==
    IF a = <<>>
    THEN (IF c = 0 THEN <<>> ELSE <<c>>)
    ELSE LET p == Head(a) * m + c
         IN  <<p % Base>> \o MagMulLimb(Tail(a), m, p \div Base)

RECURSIVE MagMul(_, _)
MagMul(a, b) ==
    IF b = <<>> THEN <<>>
    ELSE MagAdd(MagMulLimb(a, Head(b), 0), <<0>> \o MagMul(a, Tail(b)), 0)

RECURSIVE Zeros(_)
Zeros(n) ==
    IF n <= 0 THEN <<>> ELSE <<0>> \o Zeros(n - 1)

RECURSIVE MagOfNat(_)
MagOfNat(n) ==
    IF n = 0 THEN <<>> ELSE <<n % Base>> \o MagOfNat(n \div Base)

\* ------------------------------------------------------------------------
\* Signed exact decimals
\* ------------------------------------------------------------------------
RECURSIVE DropLow(_, _)
DropLow(m, e) ==
    IF e > 0 /\ m # <<>> /\ Head(m) = 0 THEN DropLow(Tail(m), e - 1)
    ELSE [mag |-> m, exp |-> e]

Norm(neg, m, e) ==
    LET s == MagStrip(m)
    IN  IF s = <<>> THEN [neg |-> FALSE, mag |-> <<>>, exp |-> 0]
        ELSE LET d == DropLow(s, e)
             IN  [neg |-> neg, mag |-> d.mag, exp |-> d.exp]

Zero == Norm(FALSE, <<>>, 0)

\* the magnitude of x with e >= x.exp fractional limbs
Align(x, e) ==
    Zeros(e - x.exp) \o x.mag

Max2(i, j) ==
    IF i >= j THEN i ELSE j

Neg(x) ==
    Norm(~x.neg, x.mag, x.exp)

Add(x, y) ==
    LET e == Max2(x.exp, y.exp)
        a == Align(x, e)
        b == Align(y, e)
        c == MagCmp(MagStrip(a), MagStrip(b))
    IN  IF x.neg = y.neg THEN Norm(x.neg, MagAdd(a, b, 0), e)
        ELSE IF c = 0 THEN Zero
        ELSE IF c > 0 THEN Norm(x.neg, MagSub(a, b, 0), e)
        ELSE Norm(y.neg, MagSub(b, a, 0), e)

Sub(x, y) ==
    Add(x, Neg(y))

Mul(x, y) ==
    Norm(x.neg # y.neg, MagMul(x.mag, y.mag), x.exp + y.exp)

\* -1, 0, 1 as x < y, x = y, x > y
Cmp(x, y) ==
    LET d == Sub(x, y)
    IN  IF d = Zero THEN 0 ELSE IF d.neg THEN -1 ELSE 1

Leq(x, y) ==
    Cmp(x, y) <= 0

Lt(x, y) ==
    Cmp(x, y) < 0

\* Python's min(x, y)
Min(x, y) ==
    IF Lt(y, x) THEN y ELSE x

\* the integer n as a number
Num(n) ==
    IF n < 0 THEN Norm(TRUE, MagOfNat(-n), 0) ELSE Norm(FALSE, MagOfNat(n), 0)

\* the decimal literal n / 10^k, 0 <= k <= 4  (Dec(9548, 1) is 954.8)
Dec(n, k) ==
    IF k = 0 THEN Num(n)
    ELSE Mul(Num(n), Norm(FALSE, <<10^(4 - k)>>, 1))

\* round(x, 2): to the nearest multiple of 0.01, ties to the even cent
Round2(x) ==
    IF x.exp = 0 THEN x
    ELSE LET m     == x.mag \o Zeros(x.exp - Len(x.mag))
             f     == m[x.exp]
             low   == SubSeq(m, 1, x.exp - 1)
             int   == SubSeq(m, x.exp + 1, Len(m))
             q     == f \div 100
             r     == f % 100
             rest  == MagStrip(low) # <<>>
             up    == \/ r > 50
                      \/ r = 50 /\ rest
                      \/ r = 50 /\ ~rest /\ q % 2 = 1
             cents == IF up THEN q + 1 ELSE q
         IN  IF cents = 100
             THEN Norm(x.neg, MagAdd(int, <<1>>, 0), 0)
             ELSE Norm(x.neg, <<cents * 100>> \o int, 1)

\* x / 10000.0, x / 5 and x / 10: exact in decimal
Div10000(x) ==
    Mul(x, Dec(1, 4))

Div5(x) ==
    Mul(x, Dec(2, 1))

Div10(x) ==
    Mul(x, Dec(1, 1))

\* an amount entered with two decimals, given in cents
Cents(c) ==
    Dec(c, 2)

\* ------------------------------------------------------------------------
\* Configuration constants
\* ------------------------------------------------------------------------
START_YEAR == 2025

SOCIAL_SECURITY_RATE == Dec(186, 3)

SOCIAL_SECURITY_THRESHOLD == Num(66150)

CAPITAL_GAINS_TAX_RATE == Dec(2638, 4)

\* ------------------------------------------------------------------------
\* Tax functions
\* ------------------------------------------------------------------------
\* the formula of each bracket of german_income_tax
Bracket1(income) ==
    Zero

Bracket2(income) ==
    LET y == Div10000(Sub(income, Num(11784)))
    IN  Mul(Add(Mul(Dec(9548, 1), y), Num(1400)), y)

Bracket3(income) ==
    LET z == Div10000(Sub(income, Num(17005)))
    IN  Add(Mul(Add(Mul(Dec(18119, 2), z), Num(2397)), z), Dec(99121, 2))

Bracket4(income) ==
    Sub(Mul(Dec(42, 2), income), Dec(1063631, 2))

Bracket5(income) ==
    Sub(Mul(Dec(45, 2), income), Dec(1897106, 2))

german_income_tax(income) ==
    IF Leq(income, Num(11784)) THEN Bracket1(income)
    ELSE IF Leq(income, Num(17005)) THEN Bracket2(income)
    ELSE IF Leq(income, Num(66760)) THEN Bracket3(income)
    ELSE IF Leq(income, Num(277825)) THEN Bracket4(income)
    ELSE Bracket5(income)

lump_sum_tax_fuenftel(lump_sum_, base_income) ==
    LET base_tax          == german_income_tax(base_income)
        tax_with_fraction == german_income_tax(Add(base_income, Div5(lump_sum_)))
    IN  Mul(Num(5), Sub(tax_with_fraction, base_tax))

\* ------------------------------------------------------------------------
\* Bounds and input domains
\* ------------------------------------------------------------------------
\* the longest simulated span, in years
MaxYears == 20

\* how many times german_income_tax is applied under TaxSpec
MaxEvals == 2

\* values of the sidebar widgets (src/app.py: min_value = 0.0, format "%.2f"), in cents
LumpSums == {0, 1, 10000000}

Pensions == {0, 1200000}

OtherIncomesSocial == {0, 6000000, 7000000}

OtherIncomesTax == {0, 1700500}

\* the market return in percent, in hundredths of a percent
MarketReturnPercentages == {0, 300}

CurrentAges == {65}

\* spans of -1, 0 and 1 year, and the two longest
AgesOfDeath ==
    {a + d : a \in CurrentAges, d \in {-1, 0, 1, MaxYears - 1, MaxYears}}

\* a caller of simulate_retirement_investable other than app.py may pass any float
NegativeAmounts == {-100000}

\* incomes german_income_tax is applied to under TaxSpec, in cents:
\* every bracket boundary, one cent below and one cent above it, and some others
Boundaries == {11784, 17005, 66760, 277825}

TaxIncomes ==
    {0, 5000000, 30000000} \cup
    UNION {{100 * B - 1, 100 * B, 100 * B + 1} : B \in Boundaries}

\* ------------------------------------------------------------------------
\* State
\* ------------------------------------------------------------------------
VARIABLES
    pc,                   \* "idle", "loop" (inside the for loop), "done", "error"
    caller,               \* "none", "app" (Run Simulation button), "direct"
    st_error,             \* whether app.py showed st.error(...)
    lump_sum, pension, current_age, age_of_death,
    other_income_social, other_income_tax, market_return,
    num_years, capital,
    pension_tax, pension_ss, net_pension, lump_tax, net_lump, lump_ss_year,
    year_index,           \* the next value the for loop takes from range(num_years)
    iter,                 \* the loop body's local variables after its last run
    results,
    tax_in, tax_out       \* TaxSpec: the incomes german_income_tax was applied to, and its results

args == <<lump_sum, pension, current_age, age_of_death,
          other_income_social, other_income_tax, market_return>>

precomputed == <<num_years, pension_tax, pension_ss, net_pension, lump_tax, net_lump, lump_ss_year>>

sim_vars == <<pc, caller, st_error, args, precomputed, capital, year_index, iter, results>>

tax_vars == <<tax_in, tax_out>>

vars == <<sim_vars, tax_vars>>

NoIter == [year_index |-> -1]

Init ==
    /\ pc = "idle"
    /\ caller = "none"
    /\ st_error = FALSE
    /\ lump_sum = Zero /\ pension = Zero
    /\ current_age = 0 /\ age_of_death = 0
    /\ other_income_social = Zero /\ other_income_tax = Zero /\ market_return = Zero
    /\ num_years = 0 /\ capital = Zero
    /\ pension_tax = Zero /\ pension_ss = Zero /\ net_pension = Zero
    /\ lump_tax = Zero /\ net_lump = Zero /\ lump_ss_year = Zero
    /\ year_index = 0
    /\ iter = NoIter
    /\ results = <<>>
    /\ tax_in = <<>> /\ tax_out = <<>>

\* ------------------------------------------------------------------------
\* simulate_retirement_investable
\* ------------------------------------------------------------------------
\* NumYears counting the year of death too
NumYearsInclusive(current_age_, age_of_death_) ==
    age_of_death_ - current_age_ + 1

NumYears(current_age_, age_of_death_) ==
    age_of_death_ - current_age_

\* (min(base + increment, threshold) - min(base, threshold)) * rate
SocialSecurity(base, increment) ==
    Mul(Sub(Min(Add(base, increment), SOCIAL_SECURITY_THRESHOLD),
            Min(base, SOCIAL_SECURITY_THRESHOLD)),
        SOCIAL_SECURITY_RATE)

\* the function's entry, up to the for loop
Enter(ls, p, ca, ad, ois, oit, mr) ==
    LET base_regular == Add(oit, ois)
        base_ss      == ois
        ptax         == Sub(german_income_tax(Add(base_regular, p)),
                            german_income_tax(base_regular))
        pss          == SocialSecurity(base_ss, p)
        ltax         == lump_sum_tax_fuenftel(ls, Add(base_regular, p))
        lump_share   == Div10(ls)
    IN  /\ lump_sum' = ls /\ pension' = p
        /\ current_age' = ca /\ age_of_death' = ad
        /\ other_income_social' = ois /\ other_income_tax' = oit
        /\ market_return' = mr
        /\ num_years' = NumYears(ca, ad)
        /\ capital' = Zero
        /\ pension_tax' = ptax
        /\ pension_ss' = pss
        /\ net_pension' = Sub(p, Add(ptax, pss))
        /\ lump_tax' = ltax
        /\ net_lump' = Sub(ls, ltax)
        /\ lump_ss_year' = SocialSecurity(Add(base_ss, p), lump_share)
        /\ results' = <<>>
        /\ year_index' = 0
        /\ iter' = NoIter
        /\ pc' = "loop"

\* what every branch of the regime selection assigns, given the branch's
\* lump_sum_gross, lump_sum_tax, lump_sum_ss and net_flow
Flows(gross, tax, ss, flow) ==
    [lump_sum_gross |-> gross, lump_sum_tax |-> tax, lump_sum_ss |-> ss,
     pension_gross |-> pension, pension_tax_value |-> pension_tax,
     pension_ss_value |-> pension_ss, net_flow |-> flow]

\* Regime with the lump sum's social security charged for eleven years
RegimeElevenYears(i) ==
    IF i = 0
    THEN Flows(lump_sum, lump_tax, lump_ss_year,
               Sub(Add(net_lump, net_pension), lump_ss_year))
    ELSE IF i <= 10
    THEN Flows(Zero, Zero, lump_ss_year, Sub(net_pension, lump_ss_year))
    ELSE Flows(Zero, Zero, Zero, net_pension)

\* Regime with the lump sum's tax reported again in the years 1 to 9
RegimeTaxRepeated(i) ==
    IF i = 0
    THEN Flows(lump_sum, lump_tax, lump_ss_year,
               Sub(Add(net_lump, net_pension), lump_ss_year))
    ELSE IF i < 10
    THEN Flows(Zero, lump_tax, lump_ss_year, Sub(net_pension, lump_ss_year))
    ELSE Flows(Zero, Zero, Zero, net_pension)

\* Regime with the lump sum's social security not deducted in the years 1 to 9
RegimeSSNotDeducted(i) ==
    IF i = 0
    THEN Flows(lump_sum, lump_tax, lump_ss_year,
               Sub(Add(net_lump, net_pension), lump_ss_year))
    ELSE IF i < 10
    THEN Flows(Zero, Zero, lump_ss_year, net_pension)
    ELSE Flows(Zero, Zero, Zero, net_pension)

\* the cash flows of year i
Regime(i) ==
    IF i = 0
    THEN Flows(lump_sum, lump_tax, lump_ss_year,
               Sub(Add(net_lump, net_pension), lump_ss_year))
    ELSE IF i < 10
    THEN Flows(Zero, Zero, lump_ss_year, Sub(net_pension, lump_ss_year))
    ELSE Flows(Zero, Zero, Zero, net_pension)

\* the investment return of one year
RollForward(capital_start, net_flow) ==
    LET new_basis               == Add(capital_start, net_flow)
        gross_investment_return == Mul(new_basis, market_return)
        investment_tax          == Mul(gross_investment_return, CAPITAL_GAINS_TAX_RATE)
        net_investment_return   == Sub(gross_investment_return, investment_tax)
        post_investment         == Add(new_basis, net_investment_return)
    IN  [capital_start           |-> capital_start,
         net_flow                |-> net_flow,
         new_basis               |-> new_basis,
         gross_investment_return |-> gross_investment_return,
         investment_tax          |-> investment_tax,
         net_investment_return   |-> net_investment_return,
         post_investment         |-> post_investment]

\* the record appended to results
Row(i, f, r) ==
    ("Calendar Year" :> START_YEAR + i) @@
    ("Age" :> current_age + i) @@
    ("Capital Start" :> Round2(r.capital_start)) @@
    ("Lump Sum Gross" :> Round2(f.lump_sum_gross)) @@
    ("Lump Sum Tax" :> Round2(f.lump_sum_tax)) @@
    ("Lump Sum SS" :> Round2(f.lump_sum_ss)) @@
    ("Pension Gross" :> Round2(f.pension_gross)) @@
    ("Pension Tax" :> Round2(f.pension_tax_value)) @@
    ("Pension SS" :> Round2(f.pension_ss_value)) @@
    ("Net Flow" :> Round2(f.net_flow)) @@
    ("Gross Investment Return" :> Round2(r.gross_investment_return)) @@
    ("Investment Tax" :> Round2(r.investment_tax)) @@
    ("Net Investment Return" :> Round2(r.net_investment_return)) @@
    ("Capital End" :> Round2(r.post_investment))

\* Carry without the year's investment return
CarryBasis(r) ==
    r.new_basis

\* Carry of the amount as emitted
CarryRounded(r) ==
    Round2(r.post_investment)

\* the capital the next year starts with
Carry(r) ==
    r.post_investment

\* one iteration of the for loop
YearStep ==
    /\ pc = "loop"
    /\ year_index < num_years
    /\ LET f == Regime(year_index)
           r == RollForward(capital, f.net_flow)
       IN  /\ results' = Append(results, Row(year_index, f, r))
           /\ iter' = [year_index |-> year_index, flows |-> f, roll |-> r]
           /\ capital' = Carry(r)
    /\ year_index' = year_index + 1
    /\ UNCHANGED <<pc, caller, st_error, args, precomputed, tax_vars>>

\* range(num_years) is exhausted: return results
Return ==
    /\ pc = "loop"
    /\ year_index >= num_years
    /\ pc' = "done"
    /\ UNCHANGED <<caller, st_error, args, precomputed, capital, year_index, iter,
                   results, tax_vars>>

\* a call of the function from Python code other than app.py, with any arguments
DirectCall ==
    /\ pc = "idle"
    /\ \E ls \in LumpSums \cup NegativeAmounts, p \in Pensions \cup NegativeAmounts,
          ca \in CurrentAges, ad \in AgesOfDeath,
          ois \in OtherIncomesSocial, oit \in OtherIncomesTax,
          pct \in MarketReturnPercentages :
            Enter(Cents(ls), Cents(p), ca, ad, Cents(ois), Cents(oit),
                  Mul(Cents(pct), Dec(1, 2)))
    /\ caller' = "direct"
    /\ UNCHANGED <<st_error, tax_vars>>

\* ------------------------------------------------------------------------
\* app.py: the Run Simulation button
\* ------------------------------------------------------------------------
\* AgeCheckFails accepting a span of zero years
AgeCheckStrict(current_age_, age_of_death_) ==
    age_of_death_ < current_age_

AgeCheckFails(current_age_, age_of_death_) ==
    age_of_death_ <= current_age_

RunSimulation ==
    /\ pc = "idle"
    /\ caller' = "app"
    /\ \E ls \in LumpSums, p \in Pensions, ca \in CurrentAges, ad \in AgesOfDeath,
          ois \in OtherIncomesSocial, oit \in OtherIncomesTax,
          pct \in MarketReturnPercentages :
            IF AgeCheckFails(ca, ad)
            THEN /\ st_error' = TRUE
                 /\ pc' = "error"
                 /\ lump_sum' = Cents(ls) /\ pension' = Cents(p)
                 /\ current_age' = ca /\ age_of_death' = ad
                 /\ other_income_social' = Cents(ois) /\ other_income_tax' = Cents(oit)
                 /\ market_return' = Mul(Cents(pct), Dec(1, 2))
                 /\ UNCHANGED <<precomputed, capital, year_index, iter, results>>
            ELSE /\ Enter(Cents(ls), Cents(p), ca, ad, Cents(ois), Cents(oit),
                          Mul(Cents(pct), Dec(1, 2)))
                 /\ UNCHANGED st_error
    /\ UNCHANGED tax_vars

Next ==
    \/ RunSimulation
    \/ DirectCall
    \/ YearStep
    \/ Return

Spec == Init /\ [][Next]_vars

\* ------------------------------------------------------------------------
\* german_income_tax applied to chosen incomes
\* ------------------------------------------------------------------------
EvalTax ==
    /\ Len(tax_in) < MaxEvals
    /\ \E c \in TaxIncomes :
        /\ tax_in' = Append(tax_in, Cents(c))
        /\ tax_out' = Append(tax_out, german_income_tax(Cents(c)))
    /\ UNCHANGED sim_vars

TaxNext ==
    EvalTax

TaxSpec == Init /\ [][TaxNext]_vars

\* ------------------------------------------------------------------------
\* Properties
\* ------------------------------------------------------------------------
NonNegative(x) ==
    ~x.neg

Positive(x) ==
    Lt(Zero, x)

Abs(x) ==
    Norm(FALSE, x.mag, x.exp)

\* the input domain of the specification: no negative amount, no negative return
ValidAmounts ==
    /\ NonNegative(lump_sum) /\ NonNegative(pension)
    /\ NonNegative(other_income_social) /\ NonNegative(other_income_tax)
    /\ NonNegative(market_return)

Records == 1 .. Len(results)

\* C1: 'Capital Start' of the first record is 0.0, and 'Capital End' of every
\* record equals 'Capital Start' of the record after it.
FoldInvariant ==
    /\ results # <<>> => results[1]["Capital Start"] = Zero
    /\ \A n \in Records :
        n < Len(results) => results[n]["Capital End"] = results[n + 1]["Capital Start"]

FoldWitness ==
    /\ pc = "done"
    /\ Len(results) >= 11
    /\ results[1]["Capital End"] # Zero
    /\ results[3]["Capital Start"] # results[2]["Capital Start"]
    /\ capital # Round2(capital)

\* C2: for age_of_death > current_age the function returns age_of_death -
\* current_age records, and the record of year i (from 0) has 'Calendar Year'
\* 2025 + i and 'Age' current_age + i, so the last has 'Age' age_of_death - 1.
RecordCount ==
    /\ \A n \in Records :
        /\ results[n]["Calendar Year"] = 2025 + (n - 1)
        /\ results[n]["Age"] = current_age + (n - 1)
    /\ pc = "done" /\ age_of_death > current_age =>
        /\ Len(results) = age_of_death - current_age
        /\ results[Len(results)]["Age"] = age_of_death - 1

RecordCountWitness ==
    /\ pc = "done"
    /\ current_age = 65 /\ age_of_death = 85
    /\ Len(results) = 20
    /\ results[20]["Age"] = 84 /\ results[20]["Calendar Year"] = 2044

\* what lines 120-121 compute from the inputs
LumpSSFromInputs ==
    Mul(Sub(Min(Add(Add(other_income_social, pension), Div10(lump_sum)), Num(66150)),
            Min(Add(other_income_social, pension), Num(66150))),
        Dec(186, 3))

\* C3 as stated: whenever lump_sum > 0 (the other inputs valid), 'Lump Sum SS'
\* is the same nonzero value in the records of the years 0..9 and 0 from year 10.
LumpSSWindowAlwaysNonzero ==
    Positive(lump_sum) /\ ValidAmounts =>
        \A n \in Records :
            IF n <= 10
            THEN /\ results[n]["Lump Sum SS"] = results[1]["Lump Sum SS"]
                 /\ results[n]["Lump Sum SS"] # Zero
            ELSE results[n]["Lump Sum SS"] = Zero

\* C3 amended: 'Lump Sum SS' is round(lump_ss_year, 2) in the records of the
\* years 0..9 and exactly 0 from year 10; for valid inputs that value is nonzero
\* only if lump_sum > 0 and other_income_social + pension is below the
\* threshold 66150, and it is 0 whenever that base reaches the threshold.
LumpSSWindow ==
    /\ \A n \in Records :
        IF n <= 10
        THEN results[n]["Lump Sum SS"] = Round2(LumpSSFromInputs)
        ELSE results[n]["Lump Sum SS"] = Zero
    /\ ValidAmounts /\ results # <<>> =>
        /\ results[1]["Lump Sum SS"] # Zero =>
            /\ Positive(lump_sum)
            /\ Lt(Add(other_income_social, pension), Num(66150))
        /\ Leq(Num(66150), Add(other_income_social, pension)) =>
            results[1]["Lump Sum SS"] = Zero

LumpSSWindowWitness ==
    /\ Len(results) >= 11
    /\ Positive(lump_sum)
    /\ results[10]["Lump Sum SS"] # Zero
    /\ results[11]["Lump Sum SS"] = Zero

\* C4: the first record carries lump_sum as 'Lump Sum Gross' and
\* 5 * (tax(base_regular + pension + lump_sum / 5) - tax(base_regular + pension))
\* as 'Lump Sum Tax'; both are 0 in every later record.
LumpSumOneShot ==
    LET base == Add(Add(other_income_tax, other_income_social), pension)
        tax  == Mul(Num(5), Sub(german_income_tax(Add(base, Div5(lump_sum))),
                                german_income_tax(base)))
    IN  \A n \in Records :
            IF n = 1
            THEN /\ results[n]["Lump Sum Gross"] = Round2(lump_sum)
                 /\ results[n]["Lump Sum Tax"] = Round2(tax)
            ELSE /\ results[n]["Lump Sum Gross"] = Zero
                 /\ results[n]["Lump Sum Tax"] = Zero

LumpSumOneShotWitness ==
    /\ Len(results) >= 11
    /\ Positive(lump_sum)
    /\ Positive(results[1]["Lump Sum Tax"])
    /\ results[1]["Lump Sum Gross"] = Num(100000)

InvalidInput ==
    \/ age_of_death <= current_age
    \/ lump_sum.neg \/ pension.neg \/ other_income_social.neg \/ other_income_tax.neg

\* C5 as stated: on invalid input the projection ends in an error and no
\* record is ever produced.
InvalidInputRejected ==
    pc # "idle" /\ InvalidInput =>
        /\ results = <<>>
        /\ pc \in {"done", "error"} => pc = "error" /\ st_error

\* C5 amended: the Run Simulation handler reports an error and runs no
\* projection when age_of_death <= current_age; its widgets supply no negative
\* amount; simulate_retirement_investable itself rejects nothing: called with
\* age_of_death <= current_age it returns no record, without an error, and
\* called with a negative amount it produces its records.
InputValidation ==
    /\ caller = "app" =>
        /\ ValidAmounts
        /\ age_of_death <= current_age => pc = "error" /\ st_error /\ results = <<>>
        /\ age_of_death > current_age => pc \in {"loop", "done"} /\ ~st_error
    /\ caller = "direct" =>
        /\ pc \in {"loop", "done"} /\ ~st_error
        /\ age_of_death <= current_age => results = <<>>
        /\ pc = "done" /\ age_of_death > current_age =>
            Len(results) = age_of_death - current_age

InputValidationWitness ==
    /\ caller = "app"
    /\ pc = "error" /\ st_error
    /\ age_of_death = current_age
    /\ results = <<>>

\* C6: german_income_tax is non-decreasing: a <= b implies tax(a) <= tax(b).
TaxMonotone ==
    \A m, n \in 1 .. Len(tax_in) :
        Leq(tax_in[m], tax_in[n]) => Leq(tax_out[m], tax_out[n])

\* the formula of the bracket that starts above boundary B
UpperBracket(B, income) ==
    CASE B = 11784  -> Bracket2(income)
      [] B = 17005  -> Bracket3(income)
      [] B = 66760  -> Bracket4(income)
      [] B = 277825 -> Bracket5(income)

\* what two floating-point evaluations of one value may differ by: 10^-8
FloatTolerance ==
    Mul(Dec(1, 4), Dec(1, 4))

\* C7: at each bracket boundary B the tax at income B (the formula of the
\* bracket ending at B) equals the value of the formula of the bracket starting
\* above B at income B, up to floating-point rounding.
BracketContinuity ==
    \A n \in 1 .. Len(tax_in) : \A B \in Boundaries :
        tax_in[n] = Num(B) =>
            Leq(Abs(Sub(UpperBracket(B, Num(B)), tax_out[n])), FloatTolerance)

\* C8: the unrounded net_flow of year i is net_lump + net_pension -
\* lump_ss_year for i = 0, net_pension - lump_ss_year for 1 <= i < 10 and
\* net_pension for i >= 10, where net_pension = pension - pension_tax -
\* pension_ss and net_lump = lump_sum - lump_tax; 'Pension Gross', 'Pension
\* Tax' and 'Pension SS' are the precomputed values in every record.
NetFlowRegime ==
    LET base_regular == Add(other_income_tax, other_income_social)
        ptax == Sub(german_income_tax(Add(base_regular, pension)),
                    german_income_tax(base_regular))
        pss  == Mul(Sub(Min(Add(other_income_social, pension), Num(66150)),
                        Min(other_income_social, Num(66150))), Dec(186, 3))
        np   == Sub(Sub(pension, ptax), pss)
        nl   == Sub(lump_sum, lump_tax)
        i    == iter.year_index
    IN  /\ i >= 0 =>
            iter.flows.net_flow =
                IF i = 0 THEN Sub(Add(nl, np), lump_ss_year)
                ELSE IF i < 10 THEN Sub(np, lump_ss_year)
                ELSE np
        /\ \A n \in Records :
            /\ results[n]["Pension Gross"] = Round2(pension)
            /\ results[n]["Pension Tax"] = Round2(ptax)
            /\ results[n]["Pension SS"] = Round2(pss)

NetFlowRegimeWitness ==
    /\ iter.year_index = 10
    /\ lump_ss_year # Zero
    /\ Positive(pension_tax) /\ Positive(pension_ss)
    /\ results[1]["Net Flow"] # results[2]["Net Flow"]
    /\ results[2]["Net Flow"] # results[11]["Net Flow"]

\* C9: every iteration takes the unrounded accumulator as capital_start and
\* leaves (capital_start + net_flow) + (capital_start + net_flow) *
\* market_return * (1 - 0.2638) in it, with investment_tax =
\* gross_investment_return * 0.2638; the record holds the rounded amounts.
CapitalRollForward ==
    [][year_index' = year_index + 1 =>
        LET new_basis == Add(capital, iter'.flows.net_flow)
            gross     == Mul(new_basis, market_return)
            row       == results'[Len(results')]
        IN  /\ iter'.roll.capital_start = capital
            /\ iter'.roll.gross_investment_return = gross
            /\ iter'.roll.investment_tax = Mul(gross, Dec(2638, 4))
            /\ capital' = Add(new_basis, Mul(gross, Sub(Num(1), Dec(2638, 4))))
            /\ row["Capital Start"] = Round2(capital)
            /\ row["Capital End"] = Round2(capital')
            /\ row["Investment Tax"] = Round2(Mul(gross, Dec(2638, 4)))]_vars

CapitalRollForwardWitness ==
    /\ iter.year_index >= 2
    /\ Positive(market_return)
    /\ capital # Round2(capital)
    /\ iter.roll.capital_start # Round2(iter.roll.capital_start)
    /\ Positive(iter.roll.investment_tax)

\* C10: for valid inputs the running capital, and 'Capital Start' and
\* 'Capital End' of every record, are never negative.
CapitalNonNegative ==
    ValidAmounts =>
        /\ NonNegative(capital)
        /\ \A n \in Records :
            /\ NonNegative(results[n]["Capital Start"])
            /\ NonNegative(results[n]["Capital End"])

====
